---- MODULE Spec2Model ----
(***************************************************************************)
(* A model of the EPUB translator: the chunker, the block extractor and    *)
(* applier of src/src/translation.ts (second translateEpub, lines          *)
(* 251-442), the pause gate of src/unnamed/part_001 (lines 138-141) and    *)
(* the caller's handlers of src/src/App.tsx.                               *)
(*                                                                         *)
(* Strings are sequences of tokens [s, n, k]: s is the token's spelling    *)
(* class, n its length in characters and k the identity of the run of      *)
(* characters it stands for, so that a 12000-character paragraph is one    *)
(* token and String.length is the sum of the n's.                          *)
(***************************************************************************)
EXTENDS Integers, Sequences, FiniteSets, TLC

\* ------------------------------------------------------------ bounds
MaxBlocks == 3

MaxSpine == 2

MaxDeviations == 2

\* The old chunk loop is followed for at most this many iterations.
MaxOldChunks == 5

\* ------------------------------------------------------------ constants
MAX_CHARS_PER_CHUNK == 20000

BLOCK_SELECTOR == {"p", "h1", "h2", "h3", "h4", "h5", "h6", "li", "blockquote"}

\* ------------------------------------------------------------ strings
Tok(s, n, k) == [s |-> s, n |-> n, k |-> k]

RECURSIVE StrLen(_)
StrLen(str) == IF str = <<>> THEN 0 ELSE Head(str).n + StrLen(Tail(str))

\* Array.prototype.join(sep): the elements with the separator between them.
RECURSIVE Join(_, _)
Join(strs, sep) ==
  IF strs = <<>> THEN <<>>
  ELSE IF Len(strs) = 1 THEN strs[1]
  ELSE strs[1] \o sep \o Join(Tail(strs), sep)

\* ------------------------------------------------------------ chunker
EmptyChunk == [nodes |-> <<>>, texts |-> <<>>, charCount |-> 0]

\* A cap that takes chunkSize as it comes, 0 included.
MaxParasAsGiven(chunkSize) == [inf |-> FALSE, v |-> chunkSize]

\* Number.isFinite(chunkSize) && chunkSize > 0 ? chunkSize : +Infinity
MAX_PARAS_PER_CHUNK(chunkSize) ==
  IF chunkSize > 0 THEN [inf |-> FALSE, v |-> chunkSize]
  ELSE [inf |-> TRUE, v |-> 0]

\* A test of the current chunk alone, the incoming block left out.
WillExceedByCharsCurOnly(cur, text) ==
  cur.charCount > 0 /\ cur.charCount + 2 > MAX_CHARS_PER_CHUNK

WillExceedByCharsNoSep(cur, text) ==
  cur.charCount > 0 /\ cur.charCount + StrLen(text) > MAX_CHARS_PER_CHUNK

willExceedByChars(cur, text) ==
  cur.charCount > 0 /\ cur.charCount + StrLen(text) + 2 > MAX_CHARS_PER_CHUNK

\* The cap compared with > instead of >=.
WillExceedByCountOffByOne(cur, chunkSize) ==
  LET m == MAX_PARAS_PER_CHUNK(chunkSize)
  IN  ~m.inf /\ Len(cur.nodes) > m.v

willExceedByCount(cur, chunkSize) ==
  LET m == MAX_PARAS_PER_CHUNK(chunkSize)
  IN  ~m.inf /\ Len(cur.nodes) >= m.v

PushBlockDropping(cur, item) ==
  [nodes |-> <<item.node>>, texts |-> <<item.text>>,
   charCount |-> StrLen(item.text) + 2]

\* cur.nodes.push(node); cur.texts.push(text); cur.charCount += text.length + 2
PushBlock(cur, item) ==
  [nodes |-> Append(cur.nodes, item.node),
   texts |-> Append(cur.texts, item.text),
   charCount |-> cur.charCount + StrLen(item.text) + 2]

\* An iteration that closes the chunk once it is half full.
ChunkIterationEarlyClose(st, item, chunkSize) ==
  LET close == (willExceedByChars(st.cur, item.text)
                  \/ willExceedByCount(st.cur, chunkSize))
               /\ Len(st.cur.nodes) > 0
      chunks1 == IF close THEN Append(st.chunks, st.cur) ELSE st.chunks
      cur1 == IF close THEN EmptyChunk ELSE st.cur
      cur2 == PushBlock(cur1, item)
  IN  IF 2 * cur2.charCount >= MAX_CHARS_PER_CHUNK
      THEN [chunks |-> Append(chunks1, cur2), cur |-> EmptyChunk]
      ELSE [chunks |-> chunks1, cur |-> cur2]

\* One iteration of the chunking loop on st = [chunks, cur].
ChunkIteration(st, item, chunkSize) ==
  LET close == (willExceedByChars(st.cur, item.text)
                  \/ willExceedByCount(st.cur, chunkSize))
               /\ Len(st.cur.nodes) > 0
      chunks1 == IF close THEN Append(st.chunks, st.cur) ELSE st.chunks
      cur1 == IF close THEN EmptyChunk ELSE st.cur
      cur2 == PushBlock(cur1, item)
  IN  IF cur2.charCount >= MAX_CHARS_PER_CHUNK
      THEN [chunks |-> Append(chunks1, cur2), cur |-> EmptyChunk]
      ELSE [chunks |-> chunks1, cur |-> cur2]

\* The tail push after the loop.
ChunkTail(st) ==
  IF Len(st.cur.nodes) > 0 THEN Append(st.chunks, st.cur) ELSE st.chunks

RECURSIVE ChunkLoop(_, _, _, _)
ChunkLoop(filtered, i, st, chunkSize) ==
  IF i > Len(filtered) THEN st
  ELSE ChunkLoop(filtered, i + 1, ChunkIteration(st, filtered[i], chunkSize), chunkSize)

MakeChunks(filtered, chunkSize) ==
  ChunkTail(ChunkLoop(filtered, 1, [chunks |-> <<>>, cur |-> EmptyChunk], chunkSize))

\* ------------------------------------------------------------ text helpers
\* \s of a JavaScript regular expression, and what String.trim removes.
IsWs(tok) == tok.s \in {" ", "\n", "nbsp"}

RECURSIVE WsRunLen(_)
WsRunLen(str) ==
  IF str = <<>> \/ ~IsWs(Head(str)) THEN 0 ELSE 1 + WsRunLen(Tail(str))

\* Index of the last "\n" token of a run, 0 when it has none.
RECURSIVE LastNewline(_)
LastNewline(run) ==
  IF run = <<>> THEN 0
  ELSE IF run[Len(run)].s = "\n" THEN Len(run)
  ELSE LastNewline(SubSeq(run, 1, Len(run) - 1))

\* .replace(/\s+\n/g, '\n'): in every maximal whitespace run, the longest
\* prefix that ends in a newline and holds a character before it becomes "\n".
RECURSIVE CollapseBeforeNewline(_)
CollapseBeforeNewline(str) ==
  IF str = <<>> THEN <<>>
  ELSE LET w == WsRunLen(str) IN
       IF w = 0 THEN <<Head(str)>> \o CollapseBeforeNewline(Tail(str))
       ELSE LET run == SubSeq(str, 1, w)
                l == LastNewline(run)
                rest == SubSeq(str, w + 1, Len(str))
            IN  (IF l >= 2 THEN <<run[l]>> \o SubSeq(run, l + 1, w) ELSE run)
                  \o CollapseBeforeNewline(rest)

RECURSIVE TrimEnd(_)
TrimEnd(str) ==
  IF str = <<>> THEN <<>>
  ELSE IF IsWs(str[Len(str)]) THEN TrimEnd(SubSeq(str, 1, Len(str) - 1))
  ELSE str

\* String.prototype.trim
Trim(str) == TrimEnd(SubSeq(str, WsRunLen(str) + 1, Len(str)))

\* .replace(/\u00A0|&nbsp;|&#xa0;/g, ' ')
NbspToSpace(str) ==
  [i \in 1..Len(str) |->
     IF str[i].s \in {"nbsp", "&nbsp;", "&#xa0;"} THEN Tok(" ", 1, str[i].k) ELSE str[i]]

normalizeText(s) == Trim(CollapseBeforeNewline(NbspToSpace(s)))

\* /<\/?(p|div|h[1-6]|li|blockquote|ul|ol)>/gi matches these tokens; it does
\* not match a tag written with an attribute, such as the token "<p a>", which
\* stands for <p class="a">.
BareBlockTags ==
  {"<p>", "</p>", "<div>", "</div>", "<li>", "</li>", "<ul>", "</ul>", "<ol>", "</ol>",
   "<blockquote>", "</blockquote>", "<h1>", "</h1>", "<h2>", "</h2>", "<h3>", "</h3>",
   "<h4>", "</h4>", "<h5>", "</h5>", "<h6>", "</h6>"}

IsBareBlockTag(tok) == tok.s \in BareBlockTags

RemoveBlockTags(html) == SelectSeq(html, LAMBDA tok : ~IsBareBlockTag(tok))

stripBlockTags(html) == Trim(CollapseBeforeNewline(RemoveBlockTags(html)))

\* ------------------------------------------------------------ document tree
\* A node is [id, tag, cls, kids, text]; a text node has tag "#text" and id 0,
\* an element has an id standing for the identity of its DomElement object.
TextNode(str) == [id |-> 0, tag |-> "#text", cls |-> "", kids |-> <<>>, text |-> str]

Elem(id, tag, cls, kids) == [id |-> id, tag |-> tag, cls |-> cls, kids |-> kids, text |-> <<>>]

tagName(node) == node.tag

RECURSIVE Preorder(_), PreorderAll(_)
\* The elements of the subtree of node, node included, in document order.
Preorder(node) ==
  IF node.tag = "#text" THEN <<>> ELSE <<node>> \o PreorderAll(node.kids)
PreorderAll(kids) ==
  IF kids = <<>> THEN <<>> ELSE Preorder(Head(kids)) \o PreorderAll(Tail(kids))

RECURSIVE TextOf(_), TextOfAll(_)
\* $(node).text(): the text nodes of the subtree, concatenated.
TextOf(node) ==
  IF node.tag = "#text" THEN node.text ELSE TextOfAll(node.kids)
TextOfAll(kids) ==
  IF kids = <<>> THEN <<>> ELSE TextOf(Head(kids)) \o TextOfAll(Tail(kids))

\* $(sel): the elements matching BLOCK_SELECTOR, in document order.
SelectBlocks(root) == SelectSeq(Preorder(root), LAMBDA el : el.tag \in BLOCK_SELECTOR)

\* $(el).find(BLOCK_SELECTOR): the matching proper descendants.
FindBlocks(el) == SelectSeq(PreorderAll(el.kids), LAMBDA d : d.tag \in BLOCK_SELECTOR)

\* /\btranslated-bilingual\b/.test(cls)
HasMarker(cls) == cls \in {"translated-bilingual", "translated-bilingual note"}

\* A filter that does not look at the class.
IsLeafIgnoringMarker(el) == Len(FindBlocks(el)) = 0

IsLeaf(el) == ~HasMarker(el.cls) /\ Len(FindBlocks(el)) = 0

selectLeafBlocks(root) == SelectSeq(SelectBlocks(root), IsLeaf)

\* leafTexts and the filter of the empty ones: the list of {node, text}.
FilteredBlocks(root) ==
  LET leafNodes == selectLeafBlocks(root)
      all == [i \in 1..Len(leafNodes) |->
                [node |-> leafNodes[i].id, text |-> normalizeText(TextOf(leafNodes[i]))]]
  IN  SelectSeq(all, LAMBDA b : StrLen(b.text) > 0)

\* The index of the first start tag in the string, 0 when it has none.
RECURSIVE FirstTag(_, _)
FirstTag(str, i) ==
  IF i > Len(str) THEN 0 ELSE IF str[i].s = "<p a>" THEN i ELSE FirstTag(str, i + 1)

\* cheerio's parse of the markup passed to .html/.append/.after, which is
\* always an output of stripBlockTags and so holds no bare block tag: text
\* becomes a text node, and a start tag that survived the stripping opens an
\* element that reaches to the end of the markup, its end tag being stripped.
\* New elements take the identities id, id + 1, ...
RECURSIVE ParseHtml(_, _)
ParseHtml(str, id) ==
  IF str = <<>> THEN <<>>
  ELSE LET i == FirstTag(str, 1)
       IN  IF i = 0 THEN <<TextNode(str)>>
           ELSE (IF i > 1 THEN <<TextNode(SubSeq(str, 1, i - 1))>> ELSE <<>>)
                  \o <<Elem(id, "p", "a", ParseHtml(SubSeq(str, i + 1, Len(str)), id + 1))>>

\* An identity no element of the tree has: a DomElement created by a parse
\* is a new object.
RECURSIVE MaxId(_)
MaxId(els) ==
  IF els = <<>> THEN 0
  ELSE LET m == MaxId(Tail(els)) IN IF Head(els).id > m THEN Head(els).id ELSE m

NewId(root) == MaxId(Preorder(root)) + 1

\* The tree with the element `id` rewritten: "html" sets its children,
\* "append" adds a last child, "after" adds a following sibling.
RECURSIVE Rewrite(_, _, _, _), RewriteAll(_, _, _, _)
Rewrite(node, id, how, arg) ==
  IF node.tag = "#text" THEN node
  ELSE [node EXCEPT !.kids = RewriteAll(node.kids, id, how, arg)]
RewriteAll(kids, id, how, arg) ==
  IF kids = <<>> THEN <<>>
  ELSE LET k == Head(kids)
           rest == RewriteAll(Tail(kids), id, how, arg)
       IN  IF k.tag # "#text" /\ k.id = id
           THEN CASE how = "html" -> <<[k EXCEPT !.kids = arg]>> \o rest
                  [] how = "append" -> <<[k EXCEPT !.kids = Append(k.kids, arg)]>> \o rest
                  [] OTHER -> <<k, arg>> \o rest
           ELSE <<Rewrite(k, id, how, arg)>> \o rest

\* The element of the tree with this id.
NodeById(root, id) ==
  LET hits == SelectSeq(Preorder(root), LAMBDA el : el.id = id)
  IN  hits[1]

\* The parse of `<tag class="translated-bilingual">${safe}</tag>`.
Translated(tag, safe, new) == Elem(new, tag, "translated-bilingual", ParseHtml(safe, new + 1))

\* Every translation placed after the block, whatever its tag.
insertBilingualAlwaysAfter(root, id, translated) ==
  Rewrite(root, id, "after", Translated("p", stripBlockTags(translated), NewId(root)))

insertBilingual(root, id, translated) ==
  LET t == tagName(NodeById(root, id))
      safe == stripBlockTags(translated)
      new == NewId(root)
  IN  IF t = "li" THEN Rewrite(root, id, "append", Translated("div", safe, new))
      ELSE IF t = "blockquote" THEN Rewrite(root, id, "append", Translated("p", safe, new))
      ELSE IF t \in {"h1", "h2", "h3", "h4", "h5", "h6"}
           THEN Rewrite(root, id, "after", Translated("div", safe, new))
      ELSE Rewrite(root, id, "after", Translated("p", safe, new))

replaceBlock(root, id, translated) ==
  Rewrite(root, id, "html", ParseHtml(stripBlockTags(translated), NewId(root)))


\* chunk.nodes.forEach((node, j) => ...): translatedParagraphs[j] ?? ''
ResultOrLast(arr, j) ==
  IF j <= Len(arr) THEN arr[j] ELSE IF arr = <<>> THEN <<>> ELSE arr[Len(arr)]

\* The array read from its end.
ResultFromEnd(arr, j) == IF j <= Len(arr) THEN arr[Len(arr) + 1 - j] ELSE <<>>

ResultAt(arr, j) == IF j <= Len(arr) THEN arr[j] ELSE <<>>

RECURSIVE ApplyFrom(_, _, _, _, _)
ApplyFrom(root, nodes, arr, mode, j) ==
  IF j > Len(nodes) THEN root
  ELSE LET t == ResultAt(arr, j)
           next == IF mode = "replace" THEN replaceBlock(root, nodes[j], t)
                   ELSE insertBilingual(root, nodes[j], t)
       IN  ApplyFrom(next, nodes, arr, mode, j + 1)

ApplyChunk(root, chunk, arr, mode) == ApplyFrom(root, chunk.nodes, arr, mode, 1)

\* ------------------------------------------------------------ requests
Separator == <<Tok("\n\n", 2, <<0, 0, 0>>)>>

\* A request whose context is the text of every other chunk of the document.
RequestWithDocumentContext(fileIdx, chunks, i) ==
  LET others == SelectSeq([c \in 1..Len(chunks) |->
                             IF c = i THEN <<>> ELSE Join(chunks[c].texts, Separator)],
                          LAMBDA t : t # <<>>)
  IN  [file |-> fileIdx, chunk |-> i, context |-> Join(others, Separator),
       original |-> Join(chunks[i].texts, Separator), count |-> Len(chunks[i].texts)]

\* The user turns of the request for chunk i (1-based) of the document.
Request(fileIdx, chunks, i) ==
  LET originalTexts == Join(chunks[i].texts, Separator)
      prevTexts == IF i > 1 THEN Join(chunks[i - 1].texts, Separator) ELSE <<>>
      nextTexts == IF i < Len(chunks) THEN Join(chunks[i + 1].texts, Separator) ELSE <<>>
      contextTexts == Join(SelectSeq(<<prevTexts, nextTexts>>, LAMBDA t : t # <<>>), Separator)
  IN  [file |-> fileIdx, chunk |-> i, context |-> contextTexts,
       original |-> originalTexts, count |-> Len(chunks[i].texts)]

AllRequests(fileIdx, chunks, i) ==
  {Request(fileIdx, chunks, k) : k \in i..Len(chunks)}

\* The request the loop issues at index i: one call, awaited before the next.
IssuedRequests(fileIdx, chunks, i) == {Request(fileIdx, chunks, i)}

\* ------------------------------------------------------------ the service
\* A result string for block j of a request: plain text, text wrapped in
\* <p>...</p>, or text wrapped in <p class="a">...</p>.
ResultStr(style, key) ==
  IF style = "plain" THEN <<Tok("w", 7, key)>>
  ELSE IF style = "tagged"
       THEN <<Tok("<p>", 3, key), Tok("w", 7, key), Tok(" ", 1, key), Tok("</p>", 4, key)>>
  ELSE <<Tok("<p a>", 13, key), Tok("w", 7, key), Tok("</p>", 4, key)>>

\* What the call can come back with for a request of n blocks: a parsed array
\* of n-1, n or n+1 strings, plain or wrapped in <p>; a parsed array of n
\* strings wrapped in <p class="a">; no parsed payload (a refusal); a response
\* that fails validation (the helper throws); or a transport error.
Responses(req) ==
  {[kind |-> "parsed",
    arr |-> [j \in 1..m |-> ResultStr(style, <<req.file, req.chunk, j>>)]] :
      m \in {k \in {req.count - 1, req.count, req.count + 1} : k >= 0},
      style \in {"plain", "tagged"}}
  \cup {[kind |-> "parsed",
          arr |-> [j \in 1..req.count |-> ResultStr("attr", <<req.file, req.chunk, j>>)]]}
  \cup {[kind |-> "noparsed", arr |-> <<>>],
        [kind |-> "invalid", arr |-> <<>>],
        [kind |-> "transport", arr |-> <<>>]}

\* The response the prompt asks for: one plain string per block.
IsClean(req, r) ==
  /\ r.kind = "parsed"
  /\ Len(r.arr) = req.count
  /\ \A j \in 1..Len(r.arr) : r.arr[j] = ResultStr("plain", <<req.file, req.chunk, j>>)

\* ------------------------------------------------------------ the input book
W(n, k) == <<Tok("w", n, k)>>

DocA ==
  Elem(1, "body", "", <<
    Elem(2, "p", "", <<TextNode(W(100, <<0, 1, 1>>))>>),
    Elem(3, "p", "", <<TextNode(<<Tok(" ", 1, <<0, 1, 2>>), Tok("w", 15000, <<0, 1, 2>>), Tok("\n", 1, <<0, 1, 2>>)>>)>>),
    Elem(4, "p", "", <<TextNode(W(15000, <<0, 1, 3>>))>>) >>)

DocB ==
  Elem(1, "body", "", <<
    Elem(2, "h1", "", <<TextNode(W(10, <<0, 2, 1>>))>>),
    Elem(3, "ul", "", <<Elem(4, "li", "", <<TextNode(W(20, <<0, 2, 2>>))>>)>>),
    Elem(5, "blockquote", "", <<TextNode(W(30, <<0, 2, 3>>))>>),
    Elem(7, "blockquote", "", <<Elem(8, "p", "", <<TextNode(<<Tok(" ", 1, <<0, 2, 4>>), Tok("nbsp", 1, <<0, 2, 4>>)>>)>>)>>),
    Elem(9, "p", "translated-bilingual", <<TextNode(W(5, <<0, 2, 5>>))>>) >>)

\* No block element at all.
DocC == Elem(1, "body", "", <<Elem(2, "div", "", <<TextNode(W(50, <<0, 3, 1>>))>>)>>)

\* Leaf blocks, all of them empty once normalized.
DocD == Elem(1, "body", "", <<Elem(2, "p", "", <<TextNode(<<Tok("&nbsp;", 6, <<0, 4, 1>>)>>)>>)>>)

Original(tree) == [ser |-> "original", tree |-> tree]

NoTree == Elem(0, "none", "", <<>>)

\* zip.file(path) is null: no such entry.
NoEntry == [ser |-> "absent", tree |-> NoTree]

\* An entry whose content is the empty string.
EmptyEntry == [ser |-> "empty", tree |-> NoTree]

\* An entry that is listed in the archive but whose data cannot be
\* decompressed: the promise of .async('string') rejects.
CorruptEntry == [ser |-> "corrupt", tree |-> NoTree]

OpfDir == "OEBPS"

\* opfDir ? `${opfDir}/${href}` : href
FullPath(opfDir, href) == IF opfDir # "" THEN <<opfDir, href>> ELSE <<href>>

\* The package document's manifest items, in order; an item without an href
\* is not entered in the map.
ManifestItems ==
  << [id |-> "ia", href |-> "a.xhtml"], [id |-> "ib", href |-> "b.xhtml"],
     [id |-> "ic", href |-> "c.xhtml"], [id |-> "id", href |-> "d.xhtml"],
     [id |-> "ie", href |-> "e.xhtml"], [id |-> "if", href |-> "f.xhtml"],
     [id |-> "ig", href |-> ""], [id |-> "ih", href |-> "g.xhtml"] >>

SpineIds == {"ia", "ib", "ic", "id", "ie", "if", "ig", "ih", "ix"}

OtherPaths == {<<"META-INF/container.xml">>, <<"OEBPS/content.opf">>, <<"OEBPS", "style.css">>}

DocPaths == {FullPath(OpfDir, h) : h \in {"a.xhtml", "b.xhtml", "c.xhtml", "d.xhtml", "e.xhtml", "f.xhtml", "g.xhtml"}}

\* The entries of the archive as loaded: e.xhtml is in the manifest but not in
\* the archive, f.xhtml is an empty file, the data of g.xhtml is corrupt.
LoadedZip(book) ==
  [p \in DocPaths \cup OtherPaths |->
     CASE p = <<"META-INF/container.xml">> ->
            IF book.container = "missing" THEN NoEntry ELSE Original(Elem(0, "container", "", <<>>))
       [] p = <<"OEBPS/content.opf">> ->
            IF book.opf = "missing" THEN NoEntry ELSE Original(Elem(0, "package", "", <<>>))
       [] p = <<"OEBPS", "style.css">> -> Original(Elem(0, "css", "", <<>>))
       [] p = <<"OEBPS", "a.xhtml">> -> Original(DocA)
       [] p = <<"OEBPS", "b.xhtml">> -> Original(DocB)
       [] p = <<"OEBPS", "c.xhtml">> -> Original(DocC)
       [] p = <<"OEBPS", "d.xhtml">> -> Original(DocD)
       [] p = <<"OEBPS", "e.xhtml">> -> NoEntry
       [] p = <<"OEBPS", "g.xhtml">> -> CorruptEntry
       [] OTHER -> EmptyEntry]

SpineRefs == UNION {[1..n -> SpineIds] : n \in 0..MaxSpine}

Books ==
  {[container |-> "ok", opf |-> "ok", spineRefs |-> s] : s \in SpineRefs}
  \cup {[container |-> c, opf |-> "ok", spineRefs |-> <<"ia">>] : c \in {"missing", "nofullpath"}}
  \cup {[container |-> "ok", opf |-> "missing", spineRefs |-> <<"ia">>]}

\* manifest.get(id): the path of the last item with this id and an href, or
\* undefined (the empty tuple).
Undefined == <<>>

ManifestGet(id) ==
  LET hits == SelectSeq(ManifestItems, LAMBDA it : it.id = id /\ it.id # "" /\ it.href # "")
  IN  IF hits = <<>> THEN Undefined ELSE FullPath(OpfDir, hits[Len(hits)].href)

\* The paths of the referenced manifest items, in the order of the manifest.
ResolveSpineManifestOrder(book) ==
  LET refd == SelectSeq(ManifestItems, LAMBDA it :
                it.href # "" /\ \E i \in 1..Len(book.spineRefs) : book.spineRefs[i] = it.id)
  IN  [i \in 1..Len(refd) |-> FullPath(OpfDir, refd[i].href)]

\* $opf('spine > itemref').map(...).get().filter(Boolean)
ResolveSpine(book) ==
  SelectSeq([i \in 1..Len(book.spineRefs) |-> ManifestGet(book.spineRefs[i])],
            LAMBDA p : p # Undefined)

\* spine.indexOf(filePath) + 1
IndexOf(seq, x) == IF \E i \in 1..Len(seq) : seq[i] = x
                   THEN CHOOSE i \in 1..Len(seq) : seq[i] = x /\ \A k \in 1..(i - 1) : seq[k] # x
                   ELSE 0

\* $content.html({ xmlMode: true }): the tree as serialized by the library.
Serialize(tree) == [ser |-> "cheerio", tree |-> tree]

\* cheerio.load(fileContent, { xmlMode: true })
Load(entry) == entry.tree

\* ------------------------------------------------------------ state
VARIABLES
  cFiltered,   \* chunker run: the filtered blocks {node, text} of one document
  cChunkSize,  \* chunker run: the chunkSize parameter
  cI,          \* chunker run: loop index i (1-based)
  cSt,         \* chunker run: [chunks, cur]
  cPc,         \* chunker run: "loop" | "done" | "off"
  book,        \* the input archive's package data: container, opf, spineRefs
  chunkSize,   \* translateEpub's chunkSize parameter
  translationMode,  \* "replace" | "bilingual"
  zip,         \* the archive: path -> entry
  pc,          \* where translateEpub is suspended
  spine,       \* the resolved spine
  fileIdx,     \* 1-based position in spine of the loop's filePath
  content,     \* $content, the tree of the document being processed
  chunks,      \* the chunks of the document being processed
  chunkI,      \* 1-based index of the chunk whose request is awaited
  inflight,    \* the service calls not yet settled
  aborted,     \* controller.signal.aborted
  app,         \* the state of the App component
  outcome,     \* how translateEpub settled
  deviations,  \* how many responses so far were not the one asked for
  hist,        \* history: pauseClicked (Pause was clicked since the last resume),
               \* cancelInFlight (Cancel was clicked while a call was awaited)
  log          \* history: the job's requests, responses, applications, writes, snapshots

chunkVars == <<cFiltered, cChunkSize, cI, cSt, cPc>>

jobVars == <<book, chunkSize, translationMode, zip, pc, spine, fileIdx, content, chunks,
             chunkI, inflight, aborted, app, outcome, deviations, hist, log>>

vars == <<chunkVars, jobVars>>

NoBlob == [p \in {<<"none">>} |-> NoEntry]

NoProgress == [currentFile |-> <<>>, fileIndex |-> 0, totalFiles |-> 0, status |-> ""]

NoOutcome == [kind |-> "none", name |-> "", message |-> "", blob |-> NoBlob]

\* useState initial values
AppInit ==
  [status |-> <<"Ready">>, isTranslating |-> FALSE, abortController |-> FALSE,
   isPaused |-> FALSE, pauseResolver |-> FALSE, currentProgress |-> NoProgress,
   translatedEpubBlob |-> NoBlob, currentHtmlContent |-> NoTree, downloaded |-> NoBlob]

JobIdle ==
  /\ pc = "idle"
  /\ spine = <<>>
  /\ fileIdx = 0
  /\ content = NoTree
  /\ chunks = <<>>
  /\ chunkI = 0
  /\ inflight = {}
  /\ aborted = FALSE
  /\ app = AppInit
  /\ outcome = NoOutcome
  /\ deviations = 0
  /\ hist = [pauseClicked |-> FALSE, cancelInFlight |-> FALSE]
  /\ log = <<>>

ChunkOff ==
  /\ cFiltered = <<>>
  /\ cChunkSize = 0
  /\ cI = 0
  /\ cSt = [chunks |-> <<>>, cur |-> EmptyChunk]
  /\ cPc = "off"

\* ------------------------------------------------------------ chunker run
\* Text lengths: short ones, and lengths around the budget and its half.
TextLens == {1, 10, 50, 4000, 9997, 9998, 9999, 19997, 19998, 19999, 20000, 20001}

ChunkSizes == {-1, 0, 1, 2}

BlockLists == UNION {[1..n -> TextLens] : n \in 1..MaxBlocks}

FilteredOf(lens) ==
  [i \in 1..Len(lens) |-> [node |-> i, text |-> <<Tok("w", lens[i], <<0, 0, i>>)>>]]

ChunkInit ==
  /\ cFiltered \in {FilteredOf(l) : l \in BlockLists}
  /\ cChunkSize \in ChunkSizes
  /\ cI = 1
  /\ cSt = [chunks |-> <<>>, cur |-> EmptyChunk]
  /\ cPc = "loop"
  /\ book = [container |-> "ok", opf |-> "ok", spineRefs |-> <<>>]
  /\ chunkSize = 0
  /\ translationMode = "replace"
  /\ zip = LoadedZip(book)
  /\ JobIdle

\* for (let i = 0; i < filtered.length; i++) { ... }: one iteration
ChunkStep ==
  /\ cPc = "loop"
  /\ cI <= Len(cFiltered)
  /\ cSt' = ChunkIteration(cSt, cFiltered[cI], cChunkSize)
  /\ cI' = cI + 1
  /\ UNCHANGED <<cFiltered, cChunkSize, cPc, jobVars>>

\* if (cur.nodes.length > 0) chunks.push(cur)
ChunkLoopExit ==
  /\ cPc = "loop"
  /\ cI > Len(cFiltered)
  /\ cSt' = [cSt EXCEPT !.chunks = ChunkTail(cSt)]
  /\ cPc' = "done"
  /\ UNCHANGED <<cFiltered, cChunkSize, cI, jobVars>>

ChunkNext == ChunkStep \/ ChunkLoopExit

SpecChunk == ChunkInit /\ [][ChunkNext]_vars

\* ------------------------------------------------------------ the earlier chunk loop
\* Array.prototype.slice(start, end) on a 0-based array: a negative index
\* counts from the end, and both are clamped to the array.
JsIndex(n, k) == IF k < 0 THEN (IF n + k < 0 THEN 0 ELSE n + k) ELSE (IF k > n THEN n ELSE k)

JsSlice(arr, start, end) ==
  LET from == JsIndex(Len(arr), start)
      to == JsIndex(Len(arr), end)
  IN  IF from >= to THEN <<>> ELSE SubSeq(arr, from + 1, to)

\* The chunk loop of the earlier translateEpub, run on the chunker variables:
\* cFiltered holds the paragraphs, cI the 0-based index i, cSt.chunks the
\* chunks pushed so far, each a slice of the paragraphs.
OldChunkInit ==
  /\ cFiltered \in {FilteredOf(l) : l \in BlockLists}
  /\ cChunkSize \in ChunkSizes
  /\ cI = 0
  /\ cSt = [chunks |-> <<>>, cur |-> EmptyChunk]
  /\ cPc = "oldloop"
  /\ book = [container |-> "ok", opf |-> "ok", spineRefs |-> <<>>]
  /\ chunkSize = 0
  /\ translationMode = "replace"
  /\ zip = LoadedZip(book)
  /\ JobIdle

\* for (let i = 0; i < paragraphs.length; i += chunkSize)
\*   chunks.push(paragraphs.slice(i, i + chunkSize))
OldChunkStep ==
  /\ cPc = "oldloop"
  /\ cI < Len(cFiltered)
  /\ Len(cSt.chunks) < MaxOldChunks
  /\ cSt' = [cSt EXCEPT !.chunks = Append(@, JsSlice(cFiltered, cI, cI + cChunkSize))]
  /\ cI' = cI + cChunkSize
  /\ UNCHANGED <<cFiltered, cChunkSize, cPc, jobVars>>

OldChunkLoopExit ==
  /\ cPc = "oldloop"
  /\ cI >= Len(cFiltered)
  /\ cPc' = "done"
  /\ UNCHANGED <<cFiltered, cChunkSize, cI, cSt, jobVars>>

OldChunkNext == OldChunkStep \/ OldChunkLoopExit

SpecChunkOld == OldChunkInit /\ [][OldChunkNext]_vars

\* ------------------------------------------------------------ the job
Init ==
  /\ ChunkOff
  /\ book \in Books
  /\ chunkSize \in {0, 1}
  /\ translationMode \in {"replace", "bilingual"}
  /\ zip = LoadedZip(book)
  /\ JobIdle

filePath == spine[fileIdx]

Event(ev, file, chunk, data) == [ev |-> ev, file |-> file, chunk |-> chunk, data |-> data]

\* A rejected call that is issued again instead of ending the job.
RetryOnError(name, message) ==
  /\ outcome' = outcome
  /\ app' = app
  /\ pc' = pc
  /\ inflight' = inflight

\* The catch and finally blocks of handleTranslate, reached when translateEpub
\* rejects: an aborted call rejects with the AbortError the catch tests for.
Rejected(name, message) ==
  /\ outcome' = [kind |-> "error", name |-> name, message |-> message, blob |-> NoBlob]
  /\ app' = [app EXCEPT
       !.status = IF name = "AbortError" THEN <<"Translation cancelled.">>
                  ELSE <<"Error: ", message>>,
       !.translatedEpubBlob = NoBlob,
       !.currentHtmlContent = NoTree,
       !.isPaused = FALSE,
       !.pauseResolver = FALSE,
       !.isTranslating = FALSE,
       !.abortController = FALSE,
       !.currentProgress = NoProgress]
  /\ pc' = "done"
  /\ inflight' = {}

\* handleTranslate up to translateEpub's first await
HandleTranslate ==
  /\ pc = "idle"
  /\ ~app.isTranslating /\ ~app.isPaused
  /\ app' = [app EXCEPT !.isTranslating = TRUE, !.abortController = TRUE,
                        !.status = <<"Initializing...">>]
  /\ aborted' = FALSE
  /\ pc' = "unpack"
  /\ UNCHANGED <<chunkVars, book, chunkSize, translationMode, zip, spine, fileIdx, content,
                 chunks, chunkI, inflight, outcome, deviations, hist, log>>

\* Unpacking that does not test what it read.
UnpackUnchecked ==
  /\ pc = "unpack"
  /\ spine' = ResolveSpine(book)
  /\ fileIdx' = 1
  /\ pc' = "doc"
  /\ app' = [app EXCEPT !.status = <<"Unpacking EPUB...">>]
  /\ UNCHANGED <<chunkVars, book, chunkSize, translationMode, zip, content, chunks, chunkI,
                 inflight, aborted, outcome, deviations, hist, log>>

\* Unpacking: the pointer entry, the package document, manifest and spine.
Unpack ==
  /\ pc = "unpack"
  /\ book.container = "ok" /\ book.opf = "ok"
  /\ spine' = ResolveSpine(book)
  /\ fileIdx' = 1
  /\ pc' = "doc"
  /\ app' = [app EXCEPT !.status = <<"Unpacking EPUB...">>]
  /\ UNCHANGED <<chunkVars, book, chunkSize, translationMode, zip, content, chunks, chunkI,
                 inflight, aborted, outcome, deviations, hist, log>>

UnpackFails ==
  /\ pc = "unpack"
  /\ \/ /\ book.container = "missing"
        /\ Rejected("Error", "META-INF/container.xml not found.")
     \/ /\ book.container = "nofullpath"
        /\ Rejected("Error", "OPF file path not found in container.xml.")
     \/ /\ book.container = "ok" /\ book.opf = "missing"
        /\ Rejected("Error", "OPF file not found")
  /\ UNCHANGED <<chunkVars, book, chunkSize, translationMode, zip, spine, fileIdx, content,
                 chunks, chunkI, aborted, deviations, hist, log>>

\* What the loop body finds for the file: "skip" for the three continue
\* statements, else the chunks.
Readable(entry) == entry.ser \notin {"absent", "empty"}

\* await zip.file(filePath)?.async('string') rejects.
ReadRejects(entry) == entry.ser = "corrupt"

Skipped(entry) ==
  \/ ~Readable(entry)
  \/ Len(selectLeafBlocks(Load(entry))) = 0
  \/ Len(FilteredBlocks(Load(entry))) = 0

\* A skipped iteration that still writes the document back.
DocSkipWriting ==
  /\ pc = "doc"
  /\ fileIdx <= Len(spine)
  /\ ~ReadRejects(zip[filePath])
  /\ Skipped(zip[filePath])
  /\ fileIdx' = fileIdx + 1
  /\ zip' = [zip EXCEPT ![filePath] = Serialize(Load(zip[filePath]))]
  /\ app' = [app EXCEPT !.status = <<"Processing">>]
  /\ UNCHANGED <<chunkVars, book, chunkSize, translationMode, pc, spine, content, chunks,
                 chunkI, inflight, aborted, outcome, deviations, hist, log>>

\* A loop iteration that ends in one of the continue statements.
DocSkip ==
  /\ pc = "doc"
  /\ fileIdx <= Len(spine)
  /\ ~ReadRejects(zip[filePath])
  /\ Skipped(zip[filePath])
  /\ fileIdx' = fileIdx + 1
  /\ app' = [app EXCEPT !.status = <<"Processing">>]
  /\ UNCHANGED <<chunkVars, book, chunkSize, translationMode, zip, pc, spine, content, chunks,
                 chunkI, inflight, aborted, outcome, deviations, hist, log>>

\* A loop iteration whose read of the entry rejects: the rejection leaves the
\* loop through the catch block, which rethrows it.
DocReadFails ==
  /\ pc = "doc"
  /\ fileIdx <= Len(spine)
  /\ ReadRejects(zip[filePath])
  /\ Rejected("Error", "corrupt")
  /\ UNCHANGED <<chunkVars, book, chunkSize, translationMode, zip, spine, fileIdx, content,
                 chunks, chunkI, aborted, deviations, hist, log>>

\* A loop iteration up to its first service call: load, extract, chunk, call.
DocBegin ==
  /\ pc = "doc"
  /\ fileIdx <= Len(spine)
  /\ ~ReadRejects(zip[filePath])
  /\ ~Skipped(zip[filePath])
  /\ LET tree == Load(zip[filePath])
         cs == MakeChunks(FilteredBlocks(tree), chunkSize)
         reqs == IssuedRequests(fileIdx, cs, 1)
     IN  /\ content' = tree
         /\ chunks' = cs
         /\ chunkI' = 1
         /\ inflight' = inflight \cup reqs
         /\ log' = Append(log, Event("request", fileIdx, 1, Request(fileIdx, cs, 1)))
  /\ pc' = "await"
  /\ app' = [app EXCEPT !.status = <<"Translating chunk">>]
  /\ UNCHANGED <<chunkVars, book, chunkSize, translationMode, zip, spine, fileIdx, aborted,
                 outcome, deviations, hist>>

\* The loop over the spine is exhausted: the final zip.generateAsync is awaited.
SpineDone ==
  /\ pc = "doc"
  /\ fileIdx > Len(spine)
  /\ pc' = "repack"
  /\ UNCHANGED <<chunkVars, book, chunkSize, translationMode, zip, spine, fileIdx, content,
                 chunks, chunkI, inflight, aborted, app, outcome, deviations, hist, log>>

\* translateEpub returns the final archive; handleTranslate downloads it.
Complete ==
  /\ pc = "repack"
  /\ outcome' = [kind |-> "blob", name |-> "", message |-> "", blob |-> zip]
  /\ app' = [app EXCEPT
       !.downloaded = zip,
       !.status = <<"Translation complete!">>,
       !.isTranslating = FALSE,
       !.abortController = FALSE,
       !.isPaused = FALSE,
       !.pauseResolver = FALSE,
       !.currentProgress = NoProgress]
  /\ pc' = "done"
  /\ UNCHANGED <<chunkVars, book, chunkSize, translationMode, zip, spine, fileIdx, content,
                 chunks, chunkI, inflight, aborted, deviations, hist, log>>

\* completion.choices[0].message.parsed?.translation_paragraphs || []
TranslatedParagraphs(r) == IF r.kind = "parsed" THEN r.arr ELSE <<>>

\* { signal: abortSignal?.signal }: the call settles with a response only
\* while the signal is not aborted.
IgnoresSignal(isAborted) == TRUE

ObservesSignal(isAborted) == ~isAborted

WriteBackEveryChunk(i, cs) == TRUE

\* zip.file(filePath, ...) follows the loop over the chunks.
WriteBackDue(i, cs) == i = Len(cs)

\* The awaited call rejects: the response failed validation, or the transport.
ServiceError ==
  /\ pc = "await"
  /\ ObservesSignal(aborted)
  /\ \E req \in inflight : \E r \in Responses(req) :
       /\ r.kind \in {"invalid", "transport"}
       /\ log' = Append(log, Event("response", req.file, req.chunk, r))
       /\ Rejected(IF r.kind = "invalid" THEN "ZodError" ELSE "APIConnectionError", r.kind)
  /\ UNCHANGED <<chunkVars, book, chunkSize, translationMode, zip, spine, fileIdx, content,
                 chunks, chunkI, aborted, deviations, hist>>

\* The awaited call resolves: apply the result to the chunk's blocks, then
\* either issue the next chunk's call or write the document back.
Respond ==
  /\ pc = "await"
  /\ ObservesSignal(aborted)
  /\ \E req \in inflight : \E r \in Responses(req) :
       /\ r.kind \in {"parsed", "noparsed"}
       /\ req.chunk = chunkI
       /\ IsClean(req, r) \/ deviations < MaxDeviations
       /\ deviations' = IF IsClean(req, r) THEN deviations ELSE deviations + 1
       /\ LET tp == TranslatedParagraphs(r)
              chunk == chunks[chunkI]
              tree == ApplyChunk(content, chunk, tp, translationMode)
              log1 == log \o << Event("response", fileIdx, chunkI, r),
                                Event("apply", fileIdx, chunkI,
                                      [arr |-> tp, nodes |-> chunk.nodes, kind |-> r.kind]) >>
              write == WriteBackDue(chunkI, chunks)
              log2 == IF write
                      THEN Append(log1, Event("write", fileIdx, chunkI,
                                              [path |-> filePath, entry |-> Serialize(tree)]))
                      ELSE log1
          IN  /\ content' = tree
              /\ zip' = IF write THEN [zip EXCEPT ![filePath] = Serialize(tree)] ELSE zip
              /\ IF chunkI < Len(chunks)
                 THEN /\ chunkI' = chunkI + 1
                      /\ inflight' = (inflight \ {req}) \cup IssuedRequests(fileIdx, chunks, chunkI + 1)
                      /\ log' = Append(log2, Event("request", fileIdx, chunkI + 1,
                                                   Request(fileIdx, chunks, chunkI + 1)))
                      /\ pc' = "await"
                 ELSE /\ chunkI' = chunkI
                      /\ inflight' = inflight \ {req}
                      /\ log' = log2
                      /\ pc' = "snapshot"
  /\ UNCHANGED <<chunkVars, book, chunkSize, translationMode, spine, fileIdx, chunks, aborted,
                 app, outcome, hist>>

\* The awaited call rejects because the signal is aborted.
AbortReject ==
  /\ pc = "await"
  /\ aborted
  /\ Rejected("AbortError", "aborted")
  /\ UNCHANGED <<chunkVars, book, chunkSize, translationMode, zip, spine, fileIdx, content,
                 chunks, chunkI, aborted, deviations, hist, log>>

NoPauseGate == FALSE

\* if (getPausePromise) await getPausePromise(): handleTranslate passes one.
HasPauseGate == TRUE

\* A snapshot whose archive was generated before the write-back.
EmitProgressStale ==
  /\ pc = "snapshot"
  /\ LET snap == [currentFile |-> filePath, fileIndex |-> IndexOf(spine, filePath),
                  totalFiles |-> Len(spine), status |-> "Processed",
                  translatedBlob |-> [zip EXCEPT ![filePath] = LoadedZip(book)[filePath]],
                  htmlContent |-> content]
     IN  /\ log' = Append(log, Event("progress", fileIdx, 0, snap))
         /\ app' = [app EXCEPT
              !.currentProgress = [currentFile |-> snap.currentFile, fileIndex |-> snap.fileIndex,
                                   totalFiles |-> snap.totalFiles, status |-> snap.status],
              !.translatedEpubBlob = snap.translatedBlob,
              !.currentHtmlContent = snap.htmlContent,
              !.pauseResolver = IF HasPauseGate THEN TRUE ELSE @,
              !.isPaused = IF HasPauseGate THEN TRUE ELSE @]
  /\ IF HasPauseGate
     THEN pc' = "paused" /\ fileIdx' = fileIdx
     ELSE pc' = "doc" /\ fileIdx' = fileIdx + 1
  /\ UNCHANGED <<chunkVars, book, chunkSize, translationMode, zip, spine, content, chunks,
                 chunkI, inflight, aborted, outcome, deviations, hist>>

\* zip.generateAsync resolved: onProgress(...), then the pause gate.
EmitProgress ==
  /\ pc = "snapshot"
  /\ LET snap == [currentFile |-> filePath, fileIndex |-> IndexOf(spine, filePath),
                  totalFiles |-> Len(spine), status |-> "Processed",
                  translatedBlob |-> zip, htmlContent |-> content]
     IN  /\ log' = Append(log, Event("progress", fileIdx, 0, snap))
         /\ app' = [app EXCEPT
              !.currentProgress = [currentFile |-> snap.currentFile, fileIndex |-> snap.fileIndex,
                                   totalFiles |-> snap.totalFiles, status |-> snap.status],
              !.translatedEpubBlob = snap.translatedBlob,
              !.currentHtmlContent = snap.htmlContent,
              !.pauseResolver = IF HasPauseGate THEN TRUE ELSE @,
              !.isPaused = IF HasPauseGate THEN TRUE ELSE @]
  /\ IF HasPauseGate
     THEN pc' = "paused" /\ fileIdx' = fileIdx
     ELSE pc' = "doc" /\ fileIdx' = fileIdx + 1
  /\ UNCHANGED <<chunkVars, book, chunkSize, translationMode, zip, spine, content, chunks,
                 chunkI, inflight, aborted, outcome, deviations, hist>>

\* The Pause button: setIsPaused(true)
ClickPause ==
  /\ app.isTranslating /\ ~app.isPaused
  /\ app' = [app EXCEPT !.isPaused = TRUE]
  /\ hist' = [hist EXCEPT !.pauseClicked = TRUE]
  /\ UNCHANGED <<chunkVars, book, chunkSize, translationMode, zip, pc, spine, fileIdx, content,
                 chunks, chunkI, inflight, aborted, outcome, deviations, log>>

\* The Resume button: pauseResolver(); the awaited pause promise resolves and
\* the loop goes on to the next file.
ClickResume ==
  /\ app.isTranslating /\ app.isPaused /\ app.pauseResolver
  /\ pc = "paused"
  /\ app' = [app EXCEPT !.pauseResolver = FALSE, !.isPaused = FALSE]
  /\ hist' = [hist EXCEPT !.pauseClicked = FALSE]
  /\ pc' = "doc"
  /\ fileIdx' = fileIdx + 1
  /\ UNCHANGED <<chunkVars, book, chunkSize, translationMode, zip, spine, content, chunks,
                 chunkI, inflight, aborted, outcome, deviations, log>>

\* The Cancel button: abortController.abort()
ClickCancel ==
  /\ app.isTranslating /\ app.abortController
  /\ ~aborted
  /\ aborted' = TRUE
  /\ hist' = [hist EXCEPT !.cancelInFlight = (pc = "await")]
  /\ UNCHANGED <<chunkVars, book, chunkSize, translationMode, zip, pc, spine, fileIdx, content,
                 chunks, chunkI, inflight, app, outcome, deviations, log>>

Next ==
  \/ HandleTranslate
  \/ Unpack
  \/ UnpackFails
  \/ DocSkip
  \/ DocReadFails
  \/ DocBegin
  \/ SpineDone
  \/ Complete
  \/ ServiceError
  \/ Respond
  \/ AbortReject
  \/ EmitProgress
  \/ ClickPause
  \/ ClickResume
  \/ ClickCancel

Spec == Init /\ [][Next]_vars

\* ------------------------------------------------------------ claims: chunker
RECURSIVE FlatNodes(_), FlatTexts(_)
FlatNodes(cs) == IF cs = <<>> THEN <<>> ELSE Head(cs).nodes \o FlatNodes(Tail(cs))
FlatTexts(cs) == IF cs = <<>> THEN <<>> ELSE Head(cs).texts \o FlatTexts(Tail(cs))

RECURSIVE SumLens(_)
SumLens(texts) == IF texts = <<>> THEN 0 ELSE StrLen(Head(texts)) + 2 + SumLens(Tail(texts))

\* The character total of a chunk: text length + 2 over its blocks.
CharTotal(c) == SumLens(c.texts)

ChunksDone == cPc = "done"

\* C1 as stated: every chunk's character total is <= the budget, unless the
\* chunk is one block whose own text is longer than the budget.
C1_AsStated ==
  ChunksDone =>
    \A i \in 1..Len(cSt.chunks) :
      LET c == cSt.chunks[i]
      IN  \/ CharTotal(c) <= MAX_CHARS_PER_CHUNK
          \/ Len(c.nodes) = 1 /\ StrLen(c.texts[1]) > MAX_CHARS_PER_CHUNK

\* C1 amended: every chunk's character total (text length + 2 over its
\* blocks) is <= the budget, unless the chunk is one block whose text length
\* plus the 2-character separator exceeds the budget.
C1_ChunkWithinBudget ==
  ChunksDone =>
    \A i \in 1..Len(cSt.chunks) :
      LET c == cSt.chunks[i]
      IN  /\ c.charCount = CharTotal(c)
          /\ \/ CharTotal(c) <= MAX_CHARS_PER_CHUNK
             \/ Len(c.nodes) = 1 /\ StrLen(c.texts[1]) + 2 > MAX_CHARS_PER_CHUNK

\* A chunking that produced a chunk of several blocks and an oversized
\* singleton whose text alone is within the budget.
C1_Witness ==
  /\ ChunksDone
  /\ \E i \in 1..Len(cSt.chunks) : Len(cSt.chunks[i].nodes) >= 2
  /\ \E i \in 1..Len(cSt.chunks) :
       /\ Len(cSt.chunks[i].nodes) = 1
       /\ CharTotal(cSt.chunks[i]) > MAX_CHARS_PER_CHUNK
       /\ StrLen(cSt.chunks[i].texts[1]) <= MAX_CHARS_PER_CHUNK

\* C2: the chunks are non-empty and their blocks, concatenated in chunk
\* order, are the input sequence: nothing lost, duplicated or reordered.
C2_ChunksPartitionInput ==
  ChunksDone =>
    /\ \A i \in 1..Len(cSt.chunks) :
         Len(cSt.chunks[i].nodes) > 0 /\ Len(cSt.chunks[i].texts) = Len(cSt.chunks[i].nodes)
    /\ FlatNodes(cSt.chunks) = [i \in 1..Len(cFiltered) |-> cFiltered[i].node]
    /\ FlatTexts(cSt.chunks) = [i \in 1..Len(cFiltered) |-> cFiltered[i].text]

\* A chunking of three blocks into two chunks, one of them of two blocks.
C2_Witness ==
  /\ ChunksDone
  /\ Len(cFiltered) = 3
  /\ Len(cSt.chunks) = 2
  /\ \E i \in 1..2 : Len(cSt.chunks[i].nodes) = 2

\* ------------------------------------------------------------ claims: the job
EventsOf(l, ev) == SelectSeq(l, LAMBDA e : e.ev = ev)

\* The archive carried by the most recent progress snapshot, or the archive
\* as loaded when none was emitted.
LastSnapshotBlob ==
  LET ps == EventsOf(log, "progress")
  IN  IF ps = <<>> THEN LoadedZip(book) ELSE ps[Len(ps)].data.translatedBlob

\* The content last written to a path, or its content as loaded.
LastWritten(p) ==
  LET ws == SelectSeq(log, LAMBDA e : e.ev = "write" /\ e.data.path = p)
  IN  IF ws = <<>> THEN LoadedZip(book)[p] ELSE ws[Len(ws)].data.entry

Before(a, b) == a.file < b.file \/ (a.file = b.file /\ a.chunk < b.chunk)

\* C3: at most one service call is in flight; calls are issued in increasing
\* order of (spine position, chunk index); the call for chunk j+1 is issued
\* only after the result of chunk j was applied to the tree.
C3_SequentialRequests ==
  /\ Cardinality(inflight) <= 1
  /\ inflight # {} => pc = "await"
  /\ LET reqs == EventsOf(log, "request")
     IN  \A a, b \in 1..Len(reqs) : a < b => Before(reqs[a], reqs[b])
  /\ \A k \in 1..Len(log) :
       (log[k].ev = "request" /\ log[k].chunk > 1) =>
         \E m \in 1..(k - 1) :
           /\ log[m].ev = "apply"
           /\ log[m].file = log[k].file
           /\ log[m].chunk = log[k].chunk - 1

\* The second chunk of the second spine document is being translated.
C3_Witness ==
  /\ pc = "await"
  /\ Cardinality(inflight) = 1
  /\ \E r \in inflight : r.file = 2 /\ r.chunk = 2
  /\ Len(EventsOf(log, "request")) >= 3

\* The job was cancelled while a call was in flight, and has ended.
Cancelled == pc = "done" /\ hist.cancelInFlight

\* A write event is the write-back of a whole document: no call or
\* application for that spine position follows it.
WholeDocument(k) ==
  \A m \in (k + 1)..Len(log) :
    log[m].file = log[k].file => log[m].ev \notin {"request", "response", "apply", "write"}

\* C4 as stated: after a cancellation during a call for spine document i the
\* job is Cancelled, earlier documents hold their rewritten content and the
\* entry of document i is identical to its original content.
C4_AsStated ==
  Cancelled =>
    /\ outcome.kind = "error" /\ outcome.name = "AbortError"
    /\ app.status = <<"Translation cancelled.">>
    /\ \A k \in 1..Len(log) :
         log[k].ev = "write" =>
           /\ log[k].file < fileIdx
           /\ WholeDocument(k)
           /\ zip[log[k].data.path] = LastWritten(log[k].data.path)
    /\ zip[filePath] = LoadedZip(book)[filePath]

\* C4 amended: after a cancellation during a call for spine document i the
\* job is Cancelled, every document written back before i holds its fully
\* rewritten content, and the entry of document i is what it was when the
\* processing of i began: its original content, or the rewritten content of
\* an earlier spine position that names the same path.
C4_CancelLeavesDocumentUntouched ==
  Cancelled =>
    /\ outcome.kind = "error" /\ outcome.name = "AbortError"
    /\ app.status = <<"Translation cancelled.">>
    /\ \A k \in 1..Len(log) :
         log[k].ev = "write" =>
           /\ log[k].file < fileIdx
           /\ WholeDocument(k)
           /\ zip[log[k].data.path] = LastWritten(log[k].data.path)
    /\ zip[filePath] = LastWritten(filePath)
    /\ (\A k \in 1..(fileIdx - 1) : spine[k] # filePath) =>
          zip[filePath] = LoadedZip(book)[filePath]

\* Cancelled during the second chunk of the second document: the first was
\* written back, the first chunk of the second was applied in memory only.
C4_Witness ==
  /\ Cancelled
  /\ fileIdx = 2
  /\ chunkI = 2
  /\ \E k \in 1..Len(log) : log[k].ev = "write" /\ log[k].file = 1
  /\ \E k \in 1..Len(log) : log[k].ev = "apply" /\ log[k].file = 2
  /\ content # Load(zip[filePath])

\* C5 as stated, its last part: from the cancellation request on the archive
\* equals the archive of the most recent progress snapshot.
C5_AsStated == aborted => zip = LastSnapshotBlob

\* C5 amended: after a cancellation request no archive entry is written (so
\* rewritten entries keep their content), and when the job has ended the
\* archive equals the one of the most recent progress snapshot, or the input
\* archive when no snapshot was emitted.
C5_NoWriteAfterCancel ==
  /\ [][aborted => zip' = zip]_vars
  /\ []((pc = "done" /\ aborted) => zip = LastSnapshotBlob)

\* A job cancelled after a document was rewritten has ended.
C5_Witness ==
  /\ pc = "done"
  /\ aborted
  /\ EventsOf(log, "write") # <<>>
  /\ zip # LoadedZip(book)

\* C6: after a job that emitted a snapshot ends by cancellation or error, the
\* caller still holds the last snapshot's partial archive, and its status
\* tells Cancelled from an error.
C6_PartialArchiveRetrievable ==
  (pc = "done" /\ outcome.kind = "error" /\ EventsOf(log, "progress") # <<>>) =>
    /\ app.translatedEpubBlob = LastSnapshotBlob
    /\ (app.status = <<"Translation cancelled.">>) <=> (outcome.name = "AbortError")

RequestCount(l) == Len(EventsOf(l, "request"))

\* C7: the job waits only at a document boundary (after write-back and
\* snapshot, no call in flight); a requested pause makes it wait there; while
\* it waits there is no service call and no archive write; it leaves the wait
\* only by the resume signal, for the next spine position.
C7_PauseAtDocumentBoundary ==
  [][ /\ (pc' = "paused" /\ pc # "paused") =>
            /\ pc = "snapshot"
            /\ inflight' = {}
            /\ log'[Len(log')].ev = "progress" /\ log'[Len(log')].file = fileIdx'
            /\ log[Len(log)].ev = "write" /\ log[Len(log)].file = fileIdx'
      /\ (pc = "snapshot" /\ hist.pauseClicked /\ pc' # pc) => pc' = "paused"
      /\ pc = "paused" =>
            /\ zip' = zip
            /\ inflight' = inflight
            /\ RequestCount(log') = RequestCount(log)
      /\ (pc = "paused" /\ pc' # "paused") =>
            /\ app.pauseResolver /\ ~app'.pauseResolver
            /\ pc' = "doc"
            /\ fileIdx' = fileIdx + 1
    ]_vars

\* The job waits at the boundary after the first of two documents, the Pause
\* button having been clicked before.
C7_Witness ==
  /\ pc = "paused"
  /\ hist.pauseClicked
  /\ fileIdx = 1
  /\ Len(spine) = 2
  /\ ~Skipped(zip[spine[2]])

ApplyCount(l) == Len(EventsOf(l, "apply"))

IsShort(e) == Len(e.data.arr) < Len(e.data.nodes)

\* C8: in replace mode a result array shorter than the chunk raises no error:
\* each block at a returned position holds its (stripped) result, each block
\* beyond the array is empty, and the job goes on to the next call or to the
\* write-back.
C8_ShortResultTolerated ==
  /\ [](translationMode = "replace" =>
          \A k \in 1..Len(log) :
            (log[k].ev = "apply" /\ log[k].file = fileIdx /\ IsShort(log[k])) =>
              \A j \in 1..Len(log[k].data.nodes) :
                LET node == NodeById(content, log[k].data.nodes[j])
                IN  IF j <= Len(log[k].data.arr)
                    THEN TextOf(node) = stripBlockTags(log[k].data.arr[j])
                    ELSE node.kids = <<>>)
  /\ [][(translationMode = "replace" /\ ApplyCount(log') > ApplyCount(log)
           /\ IsShort(EventsOf(log', "apply")[ApplyCount(log')])) =>
          /\ outcome' = NoOutcome
          /\ pc' \in {"await", "snapshot"}
          /\ pc' = "snapshot" => zip'[filePath] = Serialize(content')]_vars

\* A replace-mode job that completed after a chunk of two or more blocks got
\* an array one entry short.
C8_Witness ==
  /\ translationMode = "replace"
  /\ pc = "done"
  /\ outcome.kind = "blob"
  /\ \E k \in 1..Len(log) :
       /\ log[k].ev = "apply"
       /\ Len(log[k].data.arr) >= 1
       /\ Len(log[k].data.arr) = Len(log[k].data.nodes) - 1

MismatchSeen ==
  \E k \in 1..Len(log) :
    /\ log[k].ev = "apply"
    /\ log[k].data.kind = "parsed"
    /\ Len(log[k].data.arr) # Len(log[k].data.nodes)

\* C9: a job in which some result array's length differed from the chunk's
\* block count does not end with the status of a job without a mismatch.
C9_MismatchInFinalStatus ==
  (pc = "done" /\ outcome.kind = "blob" /\ MismatchSeen) =>
    app.status # <<"Translation complete!">>

\* C10: a response without a schema-valid array (validation failed, or no
\* parsed payload) ends the job with an error, modifies no block and is not
\* followed by another call.
C10_ContractViolationAborts ==
  \A k \in 1..Len(log) :
    (log[k].ev = "response" /\ log[k].data.kind \in {"noparsed", "invalid"}) =>
      /\ pc = "done" /\ outcome.kind = "error"
      /\ \A m \in (k + 1)..Len(log) : log[m].ev \notin {"apply", "request", "write"}

\* C11: each chunk of each spine position is sent to the service at most once;
\* when a call fails, the job ends with that error, and from then on there is
\* no service call and no archive write.
C11_NoRetryAbortOnError ==
  /\ [](\A a, b \in 1..Len(log) :
          (a # b /\ log[a].ev = "request" /\ log[b].ev = "request") =>
            <<log[a].file, log[a].chunk>> # <<log[b].file, log[b].chunk>>)
  /\ [](\A k \in 1..Len(log) :
          (log[k].ev = "response" /\ log[k].data.kind \in {"invalid", "transport"}) =>
            /\ k = Len(log)
            /\ pc = "done"
            /\ outcome.kind = "error"
            /\ outcome.message = log[k].data.kind
            /\ app.status = <<"Error: ", log[k].data.kind>>)
  /\ [][outcome.kind = "error" =>
          (inflight = {} /\ zip' = zip /\ log' = log /\ inflight' = inflight)]_vars

\* A call for the second document failed after the first document was
\* written back.
C11_Witness ==
  /\ pc = "done"
  /\ outcome.kind = "error"
  /\ outcome.message = "transport"
  /\ fileIdx = 2
  /\ EventsOf(log, "write") # <<>>

\* C12: when the pointer entry, the root-file path or the package document is
\* missing, the job ends with an error before any document is processed: no
\* service call, no archive write, no progress snapshot.
C12_MalformedArchiveFailsEarly ==
  (book.container # "ok" \/ book.opf # "ok") =>
    /\ pc \in {"idle", "unpack", "done"}
    /\ log = <<>>
    /\ inflight = {}
    /\ spine = <<>>
    /\ zip = LoadedZip(book)
    /\ app.translatedEpubBlob = NoBlob
    /\ pc = "done" =>
         /\ outcome.kind = "error"
         /\ outcome.name = "Error"
         /\ app.status[1] = "Error: "

\* A job on an archive whose pointer entry names no root file has ended.
C12_Witness ==
  /\ pc = "done"
  /\ book.container = "nofullpath"
  /\ outcome.kind = "error"

\* The entry is absent or empty, or no block with text is extracted from it.
NoBlocks(entry) ==
  \/ entry.ser \in {"absent", "empty"}
  \/ entry.ser # "corrupt" /\ FilteredBlocks(entry.tree) = <<>>

\* The loop passes over the document at hand: no service call, no write, no
\* error, and the next spine position is next.
PassedOver ==
  /\ zip' = zip
  /\ log' = log
  /\ inflight' = {}
  /\ outcome' = NoOutcome
  /\ pc' = "doc"
  /\ fileIdx' \in {fileIdx, fileIdx + 1}
  /\ (app'.status # app.status) => fileIdx' = fileIdx + 1

\* C13: a spine document that is absent, cannot be read or has no
\* translatable block is passed over without failing the job.
C13_SkipsUnreadableOrEmpty ==
  [][(pc = "doc" /\ fileIdx <= Len(spine)
        /\ (NoBlocks(zip[spine[fileIdx]]) \/ zip[spine[fileIdx]].ser = "corrupt")) =>
       PassedOver]_vars

\* The part of C13 that holds: a spine document that is absent, empty or
\* without a translatable block is passed over.
C13_SkipsAbsentOrEmpty ==
  [][(pc = "doc" /\ fileIdx <= Len(spine) /\ NoBlocks(zip[spine[fileIdx]])) =>
       PassedOver]_vars

\* The first spine document is absent from the archive and the second one is
\* being translated.
C13_Witness ==
  /\ pc = "await"
  /\ fileIdx = 2
  /\ zip[spine[1]] = NoEntry
  /\ log[1].file = 2

\* C14: every write-back of a document is followed at once by one progress
\* snapshot for that document, before anything of the next document; the
\* snapshot's archive holds the document's rewritten content; no document has
\* two snapshots and no snapshot comes without a write-back.
C14_ProgressOncePerDocument ==
  /\ \A k \in 1..Len(log) :
       log[k].ev = "write" =>
         /\ k > 1 /\ log[k - 1].ev = "apply" /\ log[k - 1].file = log[k].file
         /\ IF k = Len(log) THEN pc = "snapshot"
            ELSE /\ log[k + 1].ev = "progress"
                 /\ log[k + 1].file = log[k].file
                 /\ log[k + 1].data.currentFile = log[k].data.path
                 /\ log[k + 1].data.translatedBlob[log[k].data.path] = log[k].data.entry
         /\ \A m \in (k + 1)..Len(log) :
              log[m].file = log[k].file => (m = k + 1 /\ log[m].ev = "progress")
  /\ \A m \in 1..Len(log) :
       log[m].ev = "progress" =>
         m > 1 /\ log[m - 1].ev = "write" /\ log[m - 1].file = log[m].file
  /\ \A a, b \in 1..Len(log) :
       (a # b /\ log[a].ev = "progress" /\ log[b].ev = "progress") => log[a].file # log[b].file

\* Both documents of a two-document spine were written back and reported.
C14_Witness ==
  /\ Len(spine) = 2
  /\ fileIdx = 2
  /\ pc = "paused"
  /\ Len(EventsOf(log, "progress")) = 2

\* ------------------------------------------------------------ claims: chunker scenarios
\* The text lengths of the chunker's input, in order.
InputLens == [i \in 1..Len(cFiltered) |-> StrLen(cFiltered[i].text)]

C16_OversizedBlockAlone ==
  ChunksDone =>
    \A i \in 1..Len(cSt.chunks) :
      \A j \in 1..Len(cSt.chunks[i].texts) :
        StrLen(cSt.chunks[i].texts[j]) > MAX_CHARS_PER_CHUNK =>
          Len(cSt.chunks[i].nodes) = 1

\* An oversized block between two short ones: each of the three ends up in
\* a chunk of its own.
C16_Witness ==
  /\ ChunksDone
  /\ cChunkSize = 0
  /\ InputLens = <<10, 20001, 50>>
  /\ Len(cSt.chunks) = 3

\* C17: with a positive block cap k, no chunk, closed or still open, holds
\* more than k blocks.
C17_BlockCapRespected ==
  cChunkSize > 0 =>
    /\ Len(cSt.cur.nodes) <= cChunkSize
    /\ \A i \in 1..Len(cSt.chunks) : Len(cSt.chunks[i].nodes) <= cChunkSize

\* Three short blocks under a cap of 2: the first chunk was closed by the
\* cap, far below the character budget.
C17_Witness ==
  /\ ChunksDone
  /\ cChunkSize = 2
  /\ InputLens = <<10, 50, 10>>
  /\ Len(cSt.chunks) = 2
  /\ Len(cSt.chunks[1].nodes) = 2
  /\ CharTotal(cSt.chunks[1]) < MAX_CHARS_PER_CHUNK

\* ------------------------------------------------------------ claims: extractor and applier
\* The document trees at hand: the readable content documents of the
\* archive, as loaded or as rewritten, and the tree being processed.
Trees == {zip[p].tree : p \in {q \in DocPaths : Readable(zip[q])}} \cup {content}

\* The elements of a sequence that have one of these identities.
WithIds(els, ids) == SelectSeq(els, LAMBDA e : e.id \in ids)

NoBlockTag(els) == \A k \in 1..Len(els) : els[k].tag \notin BLOCK_SELECTOR

\* C18: the extractor returns only elements of the translatable tags that
\* have no descendant of such a tag and do not bear the marker class, and
\* returns them in document order.
C18_LeafBlocksOnly ==
  \A root \in Trees :
    LET out == selectLeafBlocks(root)
    IN  /\ \A i \in 1..Len(out) :
             /\ out[i].tag \in BLOCK_SELECTOR
             /\ ~HasMarker(out[i].cls)
             /\ NoBlockTag(PreorderAll(out[i].kids))
        /\ out = WithIds(Preorder(root), {out[i].id : i \in 1..Len(out)})

\* The document with a heading, a list item, two quotations and an earlier
\* translation is being processed: four of its six block elements are leaves.
C18_Witness ==
  /\ pc = "await"
  /\ content = DocB
  /\ Len(SelectBlocks(content)) = 6
  /\ Len(selectLeafBlocks(content)) = 4

\* The node that follows the element `id` among its parent's children.
SiblingAfter(root, id) ==
  LET parents == SelectSeq(Preorder(root), LAMBDA e :
                   \E i \in 1..Len(e.kids) : e.kids[i].tag # "#text" /\ e.kids[i].id = id)
      kids == parents[1].kids
      i == CHOOSE n \in 1..Len(kids) : kids[n].tag # "#text" /\ kids[n].id = id
  IN  IF i < Len(kids) THEN kids[i + 1] ELSE NoTree

LastChild(node) == IF node.kids = <<>> THEN NoTree ELSE node.kids[Len(node.kids)]

\* The text of a markup string: what is left without its tags.
TextTokens(str) == SelectSeq(str, LAMBDA tok : tok.s # "<p a>")

\* C19: in bilingual mode the translation of a block is an element with the
\* marker class: the last child of the block for a list item or a quotation,
\* the sibling right after the block for a heading or a paragraph.
C19_BilingualPlacement ==
  translationMode = "bilingual" =>
    \A k \in 1..Len(log) :
      (log[k].ev = "apply" /\ log[k].file = fileIdx) =>
        \A j \in 1..Len(log[k].data.nodes) :
          LET id == log[k].data.nodes[j]
              node == NodeById(content, id)
              t == IF j <= Len(log[k].data.arr) THEN log[k].data.arr[j] ELSE <<>>
              ins == IF node.tag \in {"li", "blockquote"} THEN LastChild(node)
                     ELSE SiblingAfter(content, id)
          IN  /\ node.tag \in BLOCK_SELECTOR
              /\ HasMarker(ins.cls)
              /\ TextOf(ins) = TextTokens(stripBlockTags(t))

\* The translations of a heading, a list item and a quotation of one
\* document were inserted.
C19_Witness ==
  /\ translationMode = "bilingual"
  /\ pc = "snapshot"
  /\ spine[fileIdx] = <<"OEBPS", "b.xhtml">>
  /\ HasMarker(SiblingAfter(content, 2).cls)
  /\ HasMarker(LastChild(NodeById(content, 4)).cls)
  /\ HasMarker(LastChild(NodeById(content, 5)).cls)

\* The identities of the elements of a content document as loaded.
OriginalIds(p) ==
  {Preorder(LoadedZip(book)[p].tree)[k].id : k \in 1..Len(Preorder(LoadedZip(book)[p].tree))}

\* C20: after a bilingual-mode job rewrote a document, the extractor returns
\* from it only elements the document had before: none that came in with a
\* translation.
C20_InsertedNeverReselected ==
  translationMode = "bilingual" =>
    \A p \in {q \in DocPaths : Readable(zip[q])} :
      \A i \in 1..Len(selectLeafBlocks(zip[p].tree)) :
        selectLeafBlocks(zip[p].tree)[i].id \in OriginalIds(p)

\* ------------------------------------------------------------ replace mode
\* C21: in replace mode, once a result was applied to a block, the text the
\* block renders is the stripped result string, once: the original text is
\* gone and the result is neither nested in markup nor duplicated.
C21_ReplaceRendersStrippedResult ==
  translationMode = "replace" =>
    \A k \in 1..Len(log) :
      (log[k].ev = "apply" /\ log[k].file = fileIdx) =>
        \A j \in 1..Len(log[k].data.nodes) :
          LET node == NodeById(content, log[k].data.nodes[j])
              t == IF j <= Len(log[k].data.arr) THEN log[k].data.arr[j] ELSE <<>>
          IN  /\ TextOf(node) = stripBlockTags(t)
              /\ node.kids \in {<<>>, <<TextNode(stripBlockTags(t))>>}

\* ------------------------------------------------------------ the spine
\* The positions of the spine's item references whose id names a manifest
\* item (an item with an id and a path).
Resolvable(refs) ==
  {i \in 1..Len(refs) :
     \E n \in 1..Len(ManifestItems) : ManifestItems[n].id = refs[i] /\ ManifestItems[n].href # ""}

\* The path of the manifest item the reference names.
PathOfRef(id) ==
  LET n == CHOOSE k \in 1..Len(ManifestItems) : ManifestItems[k].id = id
  IN  <<OpfDir, ManifestItems[n].href>>

\* C22: the spine a job works on is the paths of the spine's item references
\* in spine order, without the references that name no manifest item and
\* with the others in their relative order; once resolved it does not change.
C22_SpineResolvedOnce ==
  [][/\ (pc' \notin {"idle", "unpack"} /\ book'.container = "ok" /\ book'.opf = "ok") =>
          LET kept == Resolvable(book'.spineRefs)
          IN  /\ Len(spine') = Cardinality(kept)
              /\ \A i \in 1..Len(spine') :
                   LET n == CHOOSE r \in kept : Cardinality({m \in kept : m <= r}) = i
                   IN  spine'[i] = PathOfRef(book'.spineRefs[n])
     /\ pc \notin {"idle", "unpack"} => spine' = spine]_vars

\* A job ran to its end over a spine whose first reference names no manifest
\* item and whose second names b.xhtml.
C22_Witness ==
  /\ pc = "done"
  /\ outcome.kind = "blob"
  /\ book.spineRefs = <<"ix", "ib">>
  /\ spine = << <<"OEBPS", "b.xhtml">> >>

\* ------------------------------------------------------------ the pause gate
\* C23: the job waits at the pause gate only while a pause was requested and
\* not yet resumed; a job nobody pauses or cancels needs no resume signal.
C23_WaitsOnlyWhenPauseRequested ==
  pc = "paused" => hist.pauseClicked

\* The steps translateEpub and handleTranslate take by themselves: every
\* step of the job but the clicks on Pause, Resume and Cancel.
JobStep ==
  \/ Unpack \/ UnpackFails \/ DocSkip \/ DocReadFails \/ DocBegin \/ SpineDone \/ Complete
  \/ ServiceError \/ Respond \/ AbortReject \/ EmitProgress

\* C24: a job that is cancelled while it waits at the pause gate goes on to
\* the Cancelled outcome by itself: it has a step to take that is no click
\* on Resume.
C24_CancelNotBlockedByPause ==
  (pc = "paused" /\ aborted) => ENABLED JobStep

\* ------------------------------------------------------------ claims: chunk boundaries
\* Adding a block of this text to a non-empty chunk of these texts would
\* take the chunk over the budget, or the chunk already holds the cap.
MustClose(texts, text) ==
  /\ texts # <<>>
  /\ \/ SumLens(texts) + StrLen(text) + 2 > MAX_CHARS_PER_CHUNK
     \/ cChunkSize > 0 /\ Len(texts) >= cChunkSize

\* C25: a chunk boundary stands before a block only when the chunk before it
\* is non-empty and either could not take the block within the budget or
\* already holds the block cap; in every other case the block is in the
\* chunk of the block before it.
C25_GreedyBoundaries ==
  ChunksDone =>
    \A i \in 1..Len(cSt.chunks) :
      LET texts == cSt.chunks[i].texts
      IN  /\ i > 1 => MustClose(cSt.chunks[i - 1].texts, texts[1])
          /\ \A j \in 2..Len(texts) : ~MustClose(SubSeq(texts, 1, j - 1), texts[j])

\* Blocks of 9997, 9999 and 1 characters without a cap: the second block is
\* added to the first, which fills the chunk to the budget exactly, and the
\* boundary stands before the third.
C25_Witness ==
  /\ ChunksDone
  /\ cChunkSize = 0
  /\ InputLens = <<9997, 9999, 1>>
  /\ Len(cSt.chunks) = 2
  /\ cSt.chunks[1].nodes = <<1, 2>>
  /\ CharTotal(cSt.chunks[1]) = MAX_CHARS_PER_CHUNK

\* ------------------------------------------------------------ claims: requests
\* The tokens of a list of texts.
TokSet(texts) == UNION {{texts[q][m] : m \in 1..Len(texts[q])} : q \in 1..Len(texts)}

\* How often a token occurs in a string.
Count(tok, str) == Cardinality({m \in 1..Len(str) : str[m] = tok})

\* C26: the request for chunk i of a document with n chunks carries as
\* context the texts, as extracted, of chunk i-1 (if any) and chunk i+1 (if
\* any) of that document and nothing else, as content chunk i's texts, and
\* as item count chunk i's block count; and no application puts context text
\* into the document. Stated while the document's calls are awaited, when
\* its archive entry is still the one the chunks were extracted from.
C26_ContextFromAdjacentChunks ==
  pc = "await" =>
    LET asRead == Load(zip[filePath])
        cs == MakeChunks(FilteredBlocks(asRead), chunkSize)
        n == Len(cs)
    IN  \A k \in 1..Len(log) :
          (log[k].file = fileIdx /\ log[k].ev \in {"request", "apply"}) =>
            LET i == log[k].chunk
                prev == IF i > 1 THEN <<Join(cs[i - 1].texts, Separator)>> ELSE <<>>
                next == IF i < n THEN <<Join(cs[i + 1].texts, Separator)>> ELSE <<>>
                context == Join(prev \o next, Separator)
            IN  /\ i \in 1..n
                /\ log[k].ev = "request" =>
                     /\ log[k].data.context = context
                     /\ log[k].data.original = Join(cs[i].texts, Separator)
                     /\ log[k].data.count = Len(cs[i].nodes)
                     /\ \A c \in 1..n :
                          c \notin {i - 1, i + 1} =>
                            TokSet(cs[c].texts) \cap TokSet(<<log[k].data.context>>) = {}
                /\ log[k].ev = "apply" =>
                     \A tok \in TokSet(<<context>>) \ TokSet(<<Separator>>) :
                       Count(tok, TextOf(content)) <= Count(tok, TextOf(asRead))

\* The call for the last of three chunks of a document is awaited: the
\* first chunk is not adjacent to it, and two chunks were applied.
C26_Witness ==
  /\ pc = "await"
  /\ Len(chunks) = 3
  /\ chunkI = 3
  /\ \E k \in 1..Len(log) :
       /\ log[k].ev = "request" /\ log[k].file = fileIdx /\ log[k].chunk = 3
       /\ log[k].data.context = Join(chunks[2].texts, Separator)

\* ------------------------------------------------------------ claims: positional application
\* The place the translation of a block goes to: the block itself in replace
\* mode; in bilingual mode the last child of a list item or a quotation, the
\* sibling after any other block.
PlaceOf(id) ==
  LET node == NodeById(content, id)
  IN  IF translationMode = "replace" THEN node
      ELSE IF node.tag \in {"li", "blockquote"} THEN LastChild(node)
      ELSE SiblingAfter(content, id)

\* C27: in both modes the text of result[j] is found at block j of the chunk
\* the result answers, there only and once in the document, that place
\* holds nothing else, and the entries beyond the chunk's block count are
\* nowhere in the document.
C27_ResultAppliedPositionally ==
  \A k \in 1..Len(log) :
    (log[k].ev = "apply" /\ log[k].file = fileIdx) =>
      LET nodes == log[k].data.nodes
          arr == log[k].data.arr
          whole == TextOf(content)
      IN  \A q \in 1..Len(arr) :
            IF q <= Len(nodes)
            THEN LET text == TextTokens(stripBlockTags(arr[q]))
                 IN  /\ TextOf(PlaceOf(nodes[q])) = text
                     /\ \A tok \in TokSet(<<text>>) : Count(tok, whole) = 1
            ELSE \A tok \in TokSet(<<arr[q]>>) : Count(tok, whole) = 0

\* A result array one entry longer than its chunk of two or more blocks was
\* applied in bilingual mode.
C27_Witness ==
  /\ translationMode = "bilingual"
  /\ \E k \in 1..Len(log) :
       /\ log[k].ev = "apply" /\ log[k].file = fileIdx
       /\ Len(log[k].data.nodes) >= 2
       /\ Len(log[k].data.arr) = Len(log[k].data.nodes) + 1

\* ------------------------------------------------------------ claims: termination of chunking
\* C28: for every block list and every block cap, 0 and negative included,
\* chunking ends with finitely many chunks: the loop never holds more chunks
\* than there are blocks to put into them.
C28_ChunkingTerminates ==
  Len(cSt.chunks) <= Len(cFiltered)

\* ------------------------------------------------------------ claims: progress indices
\* C29: the fileIndex of every progress snapshot is the 1-based position in
\* the spine of the document just completed, so the indices of a job's
\* snapshots are strictly increasing and none exceeds totalFiles, also for a
\* spine that lists a path more than once.
C29_FileIndexIsSpinePosition ==
  \A k \in 1..Len(log) :
    log[k].ev = "progress" =>
      /\ log[k].data.fileIndex = log[k].file
      /\ log[k].data.fileIndex <= log[k].data.totalFiles
      /\ \A h \in 1..(k - 1) :
           log[h].ev = "progress" => log[h].data.fileIndex < log[k].data.fileIndex

\* ------------------------------------------------------------ claims: frame
\* An entry the job has no business with: one the spine does not name, or a
\* spine document that is skipped (unreadable, or without a non-empty block).
OutsideTheJob(p) ==
  \/ p \notin {spine[i] : i \in 1..Len(spine)}
  \/ Skipped(LoadedZip(book)[p])

SameAsInput(blob, p) == blob[p] = LoadedZip(book)[p]

\* C30: a job changes only entries the spine names: every other entry and
\* the entry of every skipped spine document is, in the archive, in every
\* progress snapshot and in the final archive, what it is in the input.
C30_OnlySpineEntriesChange ==
  \A p \in DocPaths \cup OtherPaths :
    OutsideTheJob(p) =>
      /\ SameAsInput(zip, p)
      /\ \A k \in 1..Len(log) :
           log[k].ev = "progress" => SameAsInput(log[k].data.translatedBlob, p)
      /\ outcome.kind = "blob" => SameAsInput(outcome.blob, p)

\* A job over a document it rewrote and a document it skipped returned the
\* final archive.
C30_Witness ==
  /\ pc = "done"
  /\ outcome.kind = "blob"
  /\ spine = << <<"OEBPS", "a.xhtml">>, <<"OEBPS", "c.xhtml">> >>
  /\ outcome.blob[<<"OEBPS", "a.xhtml">>] # LoadedZip(book)[<<"OEBPS", "a.xhtml">>]
  /\ \E k \in 1..Len(log) : log[k].ev = "progress"

====
